---- MODULE Spec2Model ----
(***************************************************************************)
(* A model of stream/stream.go: the HLS playlist poller and segment queue  *)
(* (HlsClient), the bounded-time driver (Prober.do) and the jitter-buffer  *)
(* player simulator (Player.Do).                                           *)
(*                                                                         *)
(* Strings are sequences of tokens ("http://", "/", a host, a file name),  *)
(* so that concatenation is \o and strings.HasPrefix looks at the first    *)
(* token.  Durations of the player are in microseconds, the wall clock     *)
(* `now` is in milliseconds.                                               *)
(***************************************************************************)
EXTENDS Integers, Sequences, FiniteSets, TLC

VARIABLES
    \* ---- Prober configuration and the server it talks to (fixed per run)
    cfg,
    \* ---- HlsClient
    playlist,        \* c.playlist: sequence of TsSegment
    lastSeqId,       \* c.lastSeqId (int64)
    secondM3u8Url,   \* c.secondM3u8Url ("" is <<>>)
    buffer,          \* c.buffer: how many TS packets demux has not consumed yet
    interval,        \* period of the poller's ticker, in ms
    pollerPc,        \* "none" | "running" | "exited"  (goroutine downloadM3u8)
    m3u8Done,        \* c.m3u8Ctx is cancelled
    hlsPc,           \* "open" | "closed": whether the read task may still call Read
    \* ---- FlvClient
    decoder,         \* c.decoder # nil
    \* ---- Prober.do
    pc,              \* position of the driver
    rd,              \* result of the last client.Read: [pkt, err]
    retErr,          \* error returned by do ("none" until it returns)
    srcPos,          \* number of packets the client has emitted so far
    timerAt,         \* deadline of timer (ms) or -1 when not created
    timerC,          \* a value is waiting in timer.C
    \* ---- Player
    playerPc,        \* "none" | "running" | "exited"  (goroutine Player.Do)
    ch, chClosed, ctxDone,
    vqueue, aqueue,
    startPlay, hasVideo, hasAudio, rebuffer,
    frameDuration, lagTime, startTime,
    info,            \* the StreamInfo record shared by client, driver, player
    \* ---- environment
    now,             \* wall clock, ms
    \* ---- observations (written by the actions, read by no action)
    reqs,            \* the HTTP requests issued: [kind, header]
    appended,        \* SeqIds appended to c.playlist, in order
    hist,            \* what the media playlists polled so far looked like
    queued,          \* packets the driver sent that were appended to a queue
    zeroRecv,        \* zero-valued packets received from the closed channel
    playTicked,      \* a ticker event was handled in the playing phase
    lastPoll,        \* what the poller's last ticker event fetched and got
    access,          \* accesses to the shared HLS fields: [task, field, held]
    lagWrites,       \* how many times LagRate was assigned
    \* ---- the MPEG-TS demuxer on its own
    pes,             \* the PES header handed to decodePES
    pat, pmt,        \* c.pat.programs, c.pmt.pmtStreams
    tsbuf,           \* c.buffer as a sequence of 188-byte TS packets
    tsRest,          \* the part of the byte buffer not handed to the client yet
    tsOut,           \* what the Reads answered so far, ErrTryAgain left out
    ref              \* the same client, given the whole byte buffer at once

hlsVars   == <<playlist, lastSeqId, secondM3u8Url, buffer, interval, pollerPc,
               m3u8Done, hlsPc>>
drvVars   == <<decoder, pc, rd, retErr, srcPos, timerAt, timerC>>
plyVars   == <<playerPc, ch, chClosed, ctxDone, vqueue, aqueue, startPlay,
               hasVideo, hasAudio, rebuffer, frameDuration, lagTime, startTime>>
obsVars   == <<reqs, appended, hist, queued, zeroRecv, playTicked, lastPoll,
               access, lagWrites>>
tsVars    == <<pes, pat, pmt, tsbuf, tsRest, tsOut, ref>>
vars      == <<cfg, hlsVars, drvVars, plyVars, info, now, obsVars, tsVars>>

(***************************************************************************)
(* Bounds of the model.                                                    *)
(***************************************************************************)
SeqLo       == 5      \* smallest SeqId a media playlist carries
SeqHi       == 8      \* largest ordinary SeqId a media playlist carries
MaxPlaylist == 2      \* c.playlist is not grown beyond this length
MaxShort    == 2      \* length of the playlists with SeqIds in arbitrary order
MaxTsPkts   == 2      \* TS packets in one segment body
MaxTsLen    == 4      \* TS packets in a byte buffer handed to the demuxer
MaxPkts     == 62     \* packets a long stream delivers before it stalls
ShortStream == 2      \* packets a short stream delivers before it stalls
MaxNow      == 2000   \* the clock stops here, ms
MaxZero     == 2      \* zero-valued packets taken from the closed channel
MaxLagCount == 2      \* no ticker event is handled once TotalLagCount is above
TimeStep    == 1000   \* the clock advances by this much at a time, ms

(***************************************************************************)
(* Program constants.                                                      *)
(***************************************************************************)
PktAudio             == 0
PktVideo             == 1
ErrTcpConnectTimeout == 1001
ErrInvalidHttpCode   == 1002
ChanCap              == 256
MinStartFrames       == 60
MaxDeltaMs           == 100
DefaultFps           == 30
MaxBufferTimeMs      == 30000
\* uint64 -> int64 conversion: SignBit stands for 2^63 (scaled to the width
\* the model's SeqIds need).
SignBit              == 16

Nil == "nil"

ErrTryAgain         == "try again"
ErrInvaildTsPacket  == "invalid ts packet"
ErrInvaildPESHeader == "invalid pes header"
ErrNotLiveM3u8File  == "not live m3u8 file"
ErrTransport        == "transport error"     \* any error of net/http
ErrParse            == "parse error"         \* any error of a decoder library

(***************************************************************************)
(* Strings.                                                                *)
(***************************************************************************)
T(s)       == <<s>>                      \* a piece of literal text
SegFile(n) == <<"seg", n, ".ts">>        \* the file name of segment n
BadText    == T("%zz")                   \* text net/url refuses to parse
EmptyStr   == <<>>

HasPrefix(s, p) == Len(s) >= 1 /\ s[1] = T(p)

ValidUrl(url) == \A i \in 1..Len(url) : url[i] # BadText

NilHeader == {}

\* newRequest(url, header): the request carries the entries of header.
NewRequest(url, header) ==
    IF ~ValidUrl(url)
    THEN [err |-> ErrParse, req |-> [url |-> url, header |-> {}]]
    ELSE [err |-> Nil,
          req |-> [url |-> url, header |-> header]]

\* what is recorded of a request that went out
Sent(kind, req) == [kind |-> kind, header |-> req.header]

(***************************************************************************)
(* What the playlist server may answer.                                    *)
(***************************************************************************)
HugeId     == 2 * SignBit - 1                     \* a SeqId >= 2^63
UriForms   == {"http", "https", "rooted", "bare"}

SegmentUri(form, n) ==
    CASE form = "http"   -> <<T("http://"), T("cdn"), T("/"), SegFile(n)>>
      [] form = "https"  -> <<T("https://"), T("cdn"), T("/"), SegFile(n)>>
      [] form = "rooted" -> <<T("/"), SegFile(n)>>
      [] OTHER           -> <<SegFile(n)>>

Segment(form, n) == [URI |-> SegmentUri(form, n), SeqId |-> n]
NilSegment       == [URI |-> EmptyStr, SeqId |-> -1]   \* a nil *MediaSegment

\* a live window lo..hi of a playlist whose URIs are relative
Window(form, lo, hi) == [i \in 1..(hi - lo + 1) |-> Segment(form, lo + i - 1)]
Windows == {Window(f, lo, hi) : f \in {"rooted"},
                                lo \in SeqLo..SeqHi, hi \in SeqLo..SeqHi} \ {<<>>}

\* short playlists with SeqIds in any order and URIs of any form
AnySegments == {Segment("bare", SeqLo), Segment("bare", SeqHi),
                Segment("bare", HugeId),
                Segment("https", SeqLo)}
ShortLists  == UNION {[1..k -> AnySegments] : k \in 0..MaxShort}

VariantUris == {<<T("http://"), T("cdn"), T("/"), T("media.m3u8")>>,
                <<BadText>>}

PlaylistResponses ==
       {[kind |-> "neterr"], [kind |-> "garbage"], [kind |-> "closed"]}
  \cup {[kind |-> "master", uri |-> u] : u \in VariantUris}
  \cup {[kind |-> "media", segs |-> s] :
            s \in IF cfg.server = "live" THEN Windows ELSE ShortLists}

(***************************************************************************)
(* HlsClient.decodeM3u8                                                    *)
(***************************************************************************)
Int64(u) == IF u >= SignBit THEN u - 2 * SignBit ELSE u

SchemeSep(scheme) == IF scheme = "https" THEN T("https://") ELSE T("http://")

IsRelative(uri) == ~(HasPrefix(uri, "http://") \/ HasPrefix(uri, "https://"))

ResolveUri(uri) ==
    IF IsRelative(uri)
    THEN IF HasPrefix(uri, "/")
         THEN <<SchemeSep(cfg.scheme), T(cfg.host)>> \o uri
         ELSE <<SchemeSep(cfg.scheme), T(cfg.host), T("/")>> \o uri
    ELSE uri

\* a scan that never stops at a segment it has seen
SeenBeforeNever(segment, last) == FALSE
\* the loop's break: the segment is not newer than the watermark
SeenBefore(segment, last) == Int64(segment.SeqId) <= last

\* a scan that moves the watermark for every segment it appends
NextLastSeqIdAlways(segment, last) == Int64(segment.SeqId)
\* c.lastSeqId = int64(segment.SeqId), inside the test for a relative URI
NextLastSeqId(segment, last) ==
    IF IsRelative(segment.URI) THEN Int64(segment.SeqId) ELSE last

RECURSIVE ScanSegments(_, _, _, _)
ScanSegments(segs, i, last, pl) ==
    IF i > Len(segs)
    THEN [lastSeqId |-> last, playlist |-> pl]
    ELSE LET segment == segs[i] IN
         IF segment = NilSegment \/ SeenBefore(segment, last)
         THEN [lastSeqId |-> last, playlist |-> pl]
         ELSE ScanSegments(segs, i + 1,
                  NextLastSeqId(segment, last),
                  Append(pl, [url   |-> ResolveUri(segment.URI),
                              seqId |-> segment.SeqId]))

\* the result of decodeM3u8 on a response body, and the client state it leaves
DecodeM3u8(resp) ==
    LET same == [secondM3u8Url |-> secondM3u8Url, lastSeqId |-> lastSeqId,
                 playlist |-> playlist]
    IN CASE resp.kind = "garbage" ->
              [interval |-> 1000, err |-> ErrParse] @@ same
         [] resp.kind = "master" ->
              [interval |-> 1, err |-> Nil, secondM3u8Url |-> resp.uri,
               lastSeqId |-> lastSeqId, playlist |-> playlist]
         [] resp.kind = "closed" ->
              [interval |-> 1000, err |-> ErrNotLiveM3u8File] @@ same
         [] OTHER ->
              \* Segments is a ring of capacity 1024: nil after the last one
              [interval |-> 1000, err |-> Nil, secondM3u8Url |-> secondM3u8Url]
              @@ ScanSegments(resp.segs \o <<NilSegment>>, 1, lastSeqId, playlist)

(***************************************************************************)
(* StreamInfo and Connect                                                  *)
(***************************************************************************)
\* VideoFps is count / totalDuration * 1000; LagRate is lag / total.
ZeroInfo ==
    [StartTime |-> 0, IsConnected |-> FALSE, ErrCode |-> 0, HttpCode |-> 0,
     FirstVideoPktTimeMs |-> 0, FirstAudioPktTimeMs |-> 0,
     TotalLagTimeMs |-> 0, TotalLagCount |-> 0,
     VideoFps |-> [count |-> 0, totalDuration |-> 1],
     LagRate |-> [lag |-> 0, total |-> 1]]

\* StreamInfo.init
InfoInit(i, status) == [i EXCEPT !.IsConnected = TRUE, !.HttpCode = status]

\* FlvClient.Connect and HlsClient.Connect: the StreamInfo and error they
\* return, whether the FLV decoder / the poller was created, the request sent
ClientConnect ==
    LET info0 == [ZeroInfo EXCEPT !.StartTime = now]
        r     == NewRequest(cfg.Url, NilHeader)
        none  == [decoder |-> FALSE, poller |-> FALSE]
    IN IF r.err # Nil
       THEN [info |-> info0, err |-> r.err, sent |-> FALSE] @@ none
       ELSE IF ~cfg.reachable
       THEN [info |-> [info0 EXCEPT !.ErrCode = ErrTcpConnectTimeout],
             err |-> ErrTransport, sent |-> TRUE] @@ none
       ELSE IF cfg.status # 200
       THEN [info |-> [InfoInit(info0, cfg.status) EXCEPT
                           !.ErrCode = ErrInvalidHttpCode],
             err |-> Nil, sent |-> TRUE] @@ none
       ELSE IF cfg.Kind = "hls"
       THEN [info |-> InfoInit(info0, cfg.status), err |-> Nil,
             sent |-> TRUE, decoder |-> FALSE, poller |-> TRUE]
       ELSE IF ~cfg.flvOk
       THEN [info |-> InfoInit(info0, cfg.status), err |-> ErrParse,
             sent |-> TRUE] @@ none
       ELSE [info |-> InfoInit(info0, cfg.status), err |-> Nil,
             sent |-> TRUE, decoder |-> TRUE, poller |-> FALSE]

(***************************************************************************)
(* HlsClient.downloadM3u8: one ticker event of the poller                  *)
(***************************************************************************)
NoHist    == [wf |-> FALSE, first |-> -1, lo |-> -1, hi |-> -1]
HistStart == [wf |-> TRUE, first |-> -1, lo |-> -1, hi |-> -1]

\* segs is a window lo..hi of consecutive SeqIds with relative URIs
IsRelWindow(segs) ==
    /\ Len(segs) >= 1
    /\ \A i \in 1..Len(segs) :
          /\ IsRelative(segs[i].URI)
          /\ segs[i].SeqId = segs[1].SeqId + i - 1
          /\ segs[i].SeqId < SignBit

HistAfter(segs) ==
    IF ~IsRelWindow(segs) THEN NoHist
    ELSE LET lo == segs[1].SeqId
             hi == segs[Len(segs)].SeqId
         IN IF hist = [NoHist EXCEPT !.wf = TRUE]
            THEN [wf |-> TRUE, first |-> lo, lo |-> lo, hi |-> hi]
            ELSE IF hist.wf /\ lo >= hist.lo /\ lo <= hist.hi /\ hi >= hist.hi
            THEN [hist EXCEPT !.lo = lo, !.hi = hi]
            ELSE NoHist

SeqIdsOf(pl) == [i \in 1..Len(pl) |-> pl[i].seqId]

\* the fields of the client one ticker event of the poller touches, and
\* whether c.mutex is held meanwhile: c.secondM3u8Url is read when the URL is
\* chosen and written for a master playlist, both outside the mutex; the scan
\* of a live media playlist runs under the mutex
PollAccess(resp, d) ==
       {[task |-> "poller", field |-> "secondM3u8Url", held |-> FALSE]}
  \cup (IF resp.kind = "media" /\ Len(resp.segs) > 0
        THEN {[task |-> "poller", field |-> "lastSeqId", held |-> TRUE]}
        ELSE {})
  \cup (IF resp.kind = "media" /\ d.playlist # playlist
        THEN {[task |-> "poller", field |-> "playlist", held |-> TRUE]}
        ELSE {})

NoResponse == [kind |-> "none"]

AllAbsolute(segs) == \A i \in 1..Len(segs) : ~IsRelative(segs[i].URI)

\* what is recorded of a ticker event: the kind of response and the error;
\* and for a media playlist whose URIs are all absolute its segments, what
\* was appended to c.playlist and what c.lastSeqId was before
PollRecord(resp, err, d) ==
    IF resp.kind = "media" /\ Len(resp.segs) > 0 /\ AllAbsolute(resp.segs)
    THEN [kind |-> "absolute", err |-> err, segs |-> resp.segs,
          added |-> SubSeq(d.playlist, Len(playlist) + 1, Len(d.playlist)),
          last |-> lastSeqId]
    ELSE [kind |-> resp.kind, err |-> err, segs |-> <<>>, added |-> <<>>,
          last |-> -1]

Poll ==
    /\ pollerPc = "running"
    /\ LET url == IF secondM3u8Url # EmptyStr THEN secondM3u8Url ELSE cfg.Url
           r   == NewRequest(url, NilHeader)
           same == [playlist |-> playlist]
       IN IF r.err # Nil
          THEN /\ interval' = 1000
               /\ lastPoll' = PollRecord(NoResponse, r.err, same)
               /\ access' = access \cup PollAccess(NoResponse, same)
               /\ UNCHANGED <<playlist, lastSeqId, secondM3u8Url, reqs,
                              appended, hist>>
          ELSE \E resp \in PlaylistResponses :
                 \* a URL without scheme and host cannot be fetched
                 /\ IsRelative(url) => resp.kind = "neterr"
                 /\ reqs' = reqs \cup {Sent("playlist", r.req)}
                 /\ IF resp.kind = "neterr"
                    THEN /\ interval' = 1000
                         /\ lastPoll' = PollRecord(resp, ErrTransport, same)
                         /\ access' = access \cup PollAccess(resp, same)
                         /\ UNCHANGED <<playlist, lastSeqId, secondM3u8Url,
                                        appended, hist>>
                    ELSE LET d == DecodeM3u8(resp) IN
                         /\ Len(d.playlist) <= MaxPlaylist
                         /\ lastPoll' = PollRecord(resp, d.err, d)
                         /\ access' = access \cup PollAccess(resp, d)
                         /\ interval' = IF d.err # Nil THEN interval
                                                       ELSE d.interval
                         /\ playlist' = d.playlist
                         /\ lastSeqId' = d.lastSeqId
                         /\ secondM3u8Url' = d.secondM3u8Url
                         /\ hist' = IF resp.kind = "media"
                                    THEN HistAfter(resp.segs) ELSE hist
                         /\ appended' =
                              IF hist'.wf
                              THEN appended \o SubSeq(SeqIdsOf(d.playlist),
                                       Len(playlist) + 1, Len(d.playlist))
                              ELSE <<>>
    /\ UNCHANGED <<tsVars, cfg, buffer, pollerPc, m3u8Done, hlsPc, drvVars, plyVars,
                   info, now, queued, zeroRecv, playTicked, lagWrites>>

\* the poller's select takes <-c.m3u8Ctx.Done()
PollerExit ==
    /\ pollerPc = "running"
    /\ m3u8Done
    /\ pollerPc' = "exited"
    /\ UNCHANGED <<tsVars, cfg, playlist, lastSeqId, secondM3u8Url, buffer, interval,
                   m3u8Done, hlsPc, drvVars, plyVars, info, now, obsVars>>

(***************************************************************************)
(* HlsClient.Read, demux, Close                                            *)
(***************************************************************************)
ZeroPkt == [pktType |-> 0, pts |-> 0, keyframe |-> FALSE]

\* c.buffer is kept as the number of whole 188-byte TS packets it holds; what
\* a packet contains is drawn when demux takes it off the buffer.  A packet is
\* one of, by what demux does with it:
\*   "badsync"  data[0] # 0x47
\*   "skip"     ignored PID, no payload, PAT or PMT: the loop continues
\*   "nostream" decodeStream or decodePES answers ErrTryAgain
\*   "badpes"   decodePES answers ErrInvaildPESHeader
\*   "pes"      decodePES answers a packet
TsClasses == {"badsync", "skip", "nostream", "badpes", "pes"}

PesPkt == [pktType |-> PktVideo, pts |-> 0, keyframe |-> TRUE]

SegmentResponses ==
       {[kind |-> "neterr", len |-> 0], [kind |-> "status", len |-> 0],
        [kind |-> "readerr", len |-> 0]}
  \cup {[kind |-> "body", len |-> n] : n \in 0..MaxTsPkts}

\* demux on a buffer of n packets: every result it can give
RECURSIVE Demux(_)
Demux(n) ==
    IF n = 0
    THEN {[buffer |-> 0, pkt |-> ZeroPkt, err |-> ErrTryAgain]}
    ELSE UNION {
           CASE class = "badsync" ->
                  {[buffer |-> n - 1, pkt |-> ZeroPkt, err |-> ErrInvaildTsPacket]}
             [] class = "skip" -> Demux(n - 1)
             [] class = "nostream" ->
                  {[buffer |-> n - 1, pkt |-> ZeroPkt, err |-> ErrTryAgain]}
             [] class = "badpes" ->
                  {[buffer |-> n - 1, pkt |-> ZeroPkt, err |-> ErrInvaildPESHeader]}
             [] OTHER ->
                  {[buffer |-> n - 1, pkt |-> PesPkt, err |-> Nil]}
           : class \in TsClasses}

IsFatal(err) == err # Nil /\ err # ErrTryAgain

\* a Read that never holds c.mutex
ReadHoldsNoMutex == FALSE
\* Read takes c.mutex around its look at c.playlist
ReadHoldsMutex == TRUE

\* a Read that fetches the next segment whatever is left in c.buffer
BufferEmptyAlways(b) == TRUE
\* len(c.buffer) == 0
BufferEmpty(b) == b = 0

HlsRead ==
    /\ hlsPc = "open"
    /\ access' = IF BufferEmpty(buffer)
                 THEN access \cup {[task |-> "read", field |-> "playlist",
                                    held |-> ReadHoldsMutex]}
                 ELSE access
    /\ IF BufferEmpty(buffer)
       THEN LET url == IF Len(playlist) # 0 THEN playlist[1].url ELSE EmptyStr
                r   == NewRequest(url, NilHeader)
            IN /\ playlist' = IF Len(playlist) # 0 THEN Tail(playlist)
                                                   ELSE playlist
               /\ IF url = EmptyStr
                  THEN /\ rd' = [pkt |-> ZeroPkt, err |-> ErrTryAgain]
                       /\ UNCHANGED <<buffer, reqs>>
                  ELSE IF r.err # Nil
                  THEN /\ rd' = [pkt |-> ZeroPkt, err |-> r.err]
                       /\ UNCHANGED <<buffer, reqs>>
                  ELSE \E resp \in SegmentResponses :
                         /\ reqs' = reqs \cup {Sent("segment", r.req)}
                         /\ IF resp.kind = "body"
                            THEN \E d \in Demux(resp.len) :
                                 /\ buffer' = d.buffer
                                 /\ rd' = [pkt |-> d.pkt, err |-> d.err]
                            ELSE /\ buffer' = buffer
                                 /\ rd' = [pkt |-> ZeroPkt,
                                           err |-> IF resp.kind = "status"
                                                   THEN ErrTryAgain
                                                   ELSE ErrTransport]
       ELSE \E d \in Demux(buffer) :
            /\ buffer' = d.buffer
            /\ rd' = [pkt |-> d.pkt, err |-> d.err]
            /\ UNCHANGED <<playlist, reqs>>
    \* a fatal error makes the driver return: no further Read
    /\ hlsPc' = IF IsFatal(rd'.err) THEN "failed" ELSE "open"
    /\ UNCHANGED <<tsVars, cfg, lastSeqId, secondM3u8Url, interval, pollerPc, m3u8Done,
                   decoder, pc, retErr, srcPos, timerAt, timerC, plyVars, info,
                   now, appended, hist, queued, zeroRecv, playTicked, lastPoll,
                   lagWrites>>

\* HlsClient.Connect, called by the driver
HlsConnect ==
    /\ hlsPc = "new"
    /\ LET c == ClientConnect IN
       /\ info' = c.info
       /\ reqs' = IF c.sent
                  THEN reqs \cup {Sent("connect",
                                       NewRequest(cfg.Url, NilHeader).req)}
                  ELSE reqs
       /\ pollerPc' = IF c.poller THEN "running" ELSE "none"
       /\ interval' = IF c.poller THEN 1 ELSE interval
       \* on an error the driver returns at once, without Close
       /\ hlsPc' = IF c.err # Nil THEN "closed" ELSE "open"
    /\ UNCHANGED <<tsVars, cfg, playlist, lastSeqId, secondM3u8Url, buffer, m3u8Done,
                   drvVars, plyVars, now, appended, hist, queued, zeroRecv,
                   playTicked, lastPoll, access, lagWrites>>

\* a Close that cancels nothing
CloseCancelsNothing == FALSE
\* if c.m3u8Cancel != nil { c.m3u8Cancel() }: there is a cancel function when
\* Connect created the poller
CloseCancels == pollerPc # "none"

\* HlsClient.Close, deferred by the driver (timer expiry or fatal error)
HlsClose ==
    /\ hlsPc \in {"open", "failed"}
    /\ m3u8Done' = (m3u8Done \/ CloseCancels)
    /\ hlsPc' = "closed"
    /\ UNCHANGED <<tsVars, cfg, playlist, lastSeqId, secondM3u8Url, buffer, interval,
                   pollerPc, drvVars, plyVars, info, now, obsVars>>

(***************************************************************************)
(* HlsClient.decodePES                                                     *)
(*                                                                         *)
(* data is the sequence of bytes decodePES is handed (data[0] of the code  *)
(* is data[1] here).  A uint32 is kept as its two 16-bit halves [hi, lo],  *)
(* so that what falls off the top of 32 bits is lost as in the code.       *)
(***************************************************************************)
\* stream ids whose PES packet has no optional header
NoHeaderStreamIds == {188, 190, 191, 240, 241, 255, 242, 248}

\* (uint32((data[0]>>1)&0x07) << 30) | (uint32(data[1]) << 22) |
\* ((uint32(data[2]>>1) & 0x7f) << 15) | (uint32(data[3]) << 7) |
\* uint32(data[4]>>1); the five terms have no bit in common
Pts32(d) ==
    LET top == (d[1] \div 2) % 8
        b21 == (d[3] \div 2) % 128
    IN [hi |-> (top % 4) * 16384 + d[2] * 64 + (b21 \div 2),
        lo |-> (b21 % 2) * 32768 + d[4] * 128 + (d[5] \div 2)]

\* u / 90 for u = hi * 2^16 + lo
Div90(u) == (u.hi \div 90) * 65536 + (((u.hi % 90) * 65536 + u.lo) \div 90)

PesError(err) == [pkt |-> [pktType |-> 0, pts |-> 0, keyframe |-> FALSE],
                  err |-> err]

DecodePES(data, pktType) ==
    IF data[1] * 65536 + data[2] * 256 + data[3] # 1
    THEN PesError(ErrInvaildPESHeader)
    ELSE LET streamId == data[4]
             d1       == SubSeq(data, 7, Len(data))
         IN IF streamId \in NoHeaderStreamIds THEN PesError(ErrTryAgain)
            ELSE IF (d1[1] \div 64) * 64 # 128
            THEN PesError(ErrInvaildPESHeader)
            ELSE LET d2            == Tail(d1)
                     PTS_DTS_flags == d2[1] \div 64
                     d3            == SubSeq(d2, 3, Len(d2))
                 IN IF PTS_DTS_flags \in {2, 3}
                    THEN IF d3[1] \div 16 # PTS_DTS_flags
                         THEN PesError(ErrInvaildPESHeader)
                         ELSE [pkt |-> [pktType  |-> pktType,
                                        pts      |-> Div90(Pts32(d3)),
                                        keyframe |-> TRUE],
                               err |-> Nil]
                    ELSE PesError(ErrTryAgain)

\* ---- PES headers to decode
\* a 33-bit PTS is given by its three fields PTS[32..30], PTS[29..15] and
\* PTS[14..0]
PtsTops == 0..7
PtsMids == {0, 2, 32767}
PtsLows == {0, 89, 24464, 32767}
Pts90000 == [top |-> 0, mid |-> 2, low |-> 24464]      \* 2 * 2^15 + 24464

\* the PTS as hi * 2^16 + lo, hi of 17 bits
PtsValue(P) == [hi |-> P.top * 16384 + (P.mid \div 2),
                lo |-> (P.mid % 2) * 32768 + P.low]

\* the 5-byte layout: 4 bits of prefix, PTS[32..30], marker, PTS[29..15],
\* marker, PTS[14..0], marker
PtsBytes(nibble, P) ==
    <<nibble * 16 + P.top * 2 + 1,
      P.mid \div 128, (P.mid % 128) * 2 + 1,
      P.low \div 128, (P.low % 128) * 2 + 1>>

\* a PES header: start code prefix, stream id, two bytes of packet length,
\* the byte with the '10' marker, the flags byte, the header data length and
\* the PTS field
PesHeader(prefix, streamId, marker, flags, nibble, P) ==
    <<0, 0, prefix, streamId, 0, 0, marker * 64, flags * 64, 5>>
    \o PtsBytes(nibble, P)

\* stream id 224 (0xe0) is the first video stream
WellFormedPes(flags, P) == PesHeader(1, 224, 2, flags, flags, P)

PesInputs ==
       {[data |-> WellFormedPes(f, [top |-> t, mid |-> m, low |-> l]),
         flags |-> f, P |-> [top |-> t, mid |-> m, low |-> l]] :
            f \in {2, 3}, t \in PtsTops, m \in PtsMids, l \in PtsLows}
  \cup {[data |-> PesHeader(pre, sid, mk, f, nb, Pts90000),
         flags |-> f, P |-> Pts90000] :
            pre \in {0, 1}, sid \in {224, 190}, mk \in {2, 3},
            f \in 0..3, nb \in {2, 3}}

NoPes == [data |-> <<>>, flags |-> 0, P |-> Pts90000]

\* decodePES on the header at hand
DecodePesStep ==
    /\ pc = "pes"
    /\ rd' = DecodePES(pes.data, PktVideo)
    /\ pc' = "pes done"
    /\ UNCHANGED <<tsVars, cfg, hlsVars, decoder, retErr, srcPos, timerAt,
                   timerC, plyVars, info, now, obsVars>>

(***************************************************************************)
(* HlsClient.demux with its PAT/PMT state                                  *)
(*                                                                         *)
(* A TS packet is the record of what demux reads from its 188 bytes: the   *)
(* sync byte, payload_unit_start_indicator, pid, adaptation_field_control  *)
(* and the payload, which is read as a PAT section, a PMT section or a PES *)
(* header according to the pid and to the tables decoded so far.           *)
(***************************************************************************)
IgnoredPids == {1, 2, 3, 17, 66, 8191}

\* decodePAT: c.pat is replaced by the programs whose number is not 0
RECURSIVE DecodePAT(_)
DecodePAT(programs) ==
    IF programs = <<>> THEN <<>>
    ELSE IF Head(programs).programNumber # 0
         THEN <<Head(programs)>> \o DecodePAT(Tail(programs))
         ELSE DecodePAT(Tail(programs))

\* decodePMT: c.pmt is replaced only by a table that lists a stream
DecodePMT(streams, oldPmt) == IF Len(streams) # 0 THEN streams ELSE oldPmt

PmtFound(pat_, pid) ==
    \E i \in 1..Len(pat_) : pat_[i].programMapPid = pid

\* decodeStream
DecodeStream(payload, pid, payloadStart, pmt_) ==
    LET found == {i \in 1..Len(pmt_) : pmt_[i].elementaryPid = pid}
    IN IF found = {} \/ ~payloadStart THEN PesError(ErrTryAgain)
       ELSE LET first      == CHOOSE i \in found : \A j \in found : i <= j
                streamType == pmt_[first].streamType
            IN DecodePES(payload.pes,
                         IF streamType = 27 \/ streamType = 36
                         THEN PktVideo ELSE PktAudio)

\* the buffer is used up and no packet was found: the tables forgotten too
ExhaustedForgets(pat_, pmt_) ==
    [buffer |-> <<>>, pat |-> <<>>, pmt |-> <<>>] @@ PesError(ErrTryAgain)
\* c.buffer = nil; return nil, ErrTryAgain
Exhausted(pat_, pmt_) ==
    [buffer |-> <<>>, pat |-> pat_, pmt |-> pmt_] @@ PesError(ErrTryAgain)

\* demux on the buffer buf with the tables pat_ and pmt_: the buffer and
\* tables it leaves, and the packet and error it returns
RECURSIVE DemuxTs(_, _, _)
DemuxTs(buf, pat_, pmt_) ==
    IF buf = <<>> THEN Exhausted(pat_, pmt_)
    ELSE LET data == Head(buf)
             rest == Tail(buf)
         IN IF data.sync # 71
            THEN [buffer |-> rest, pat |-> pat_, pmt |-> pmt_]
                 @@ PesError(ErrInvaildTsPacket)
            ELSE IF data.pid \in IgnoredPids THEN DemuxTs(rest, pat_, pmt_)
            ELSE IF data.afc = 0 \/ data.afc = 2 THEN DemuxTs(rest, pat_, pmt_)
            ELSE IF data.pid = 0
            THEN DemuxTs(rest, DecodePAT(data.payload.programs), pmt_)
            ELSE IF PmtFound(pat_, data.pid)
            THEN DemuxTs(rest, pat_, DecodePMT(data.payload.streams, pmt_))
            ELSE [buffer |-> rest, pat |-> pat_, pmt |-> pmt_]
                 @@ DecodeStream(data.payload, data.pid, data.pusi # 0, pmt_)

\* ---- byte buffers to demux
Pids == [pmt |-> 256, video |-> 257, audio |-> 258]
PmtPid   == Pids.pmt
VideoPid == Pids.video
AudioPid == Pids.audio

Payload(programs, streams, pesData) ==
    [programs |-> programs, streams |-> streams, pes |-> pesData]
NoPayload == Payload(<<>>, <<>>, <<>>)

TsPacket(sync, pusi, pid, afc, payload) ==
    [sync |-> sync, pusi |-> pusi, pid |-> pid, afc |-> afc, payload |-> payload]

PatPacket   == TsPacket(71, 1, 0, 1,
                   Payload(<<[programNumber |-> 1, programMapPid |-> PmtPid]>>,
                           <<>>, <<>>))
PmtPacket   == TsPacket(71, 1, PmtPid, 1,
                   Payload(<<>>,
                           <<[streamType |-> 27, elementaryPid |-> VideoPid],
                             [streamType |-> 15, elementaryPid |-> AudioPid]>>,
                           <<>>))
VideoPacket == TsPacket(71, 1, VideoPid, 1,
                   Payload(<<>>, <<>>, WellFormedPes(2, Pts90000)))
AudioPacket == TsPacket(71, 1, AudioPid, 3,
                   Payload(<<>>, <<>>,
                           WellFormedPes(3, [top |-> 0, mid |-> 0, low |-> 89])))
MorePacket  == TsPacket(71, 0, VideoPid, 1, NoPayload)   \* no payload start
NullPacket  == TsPacket(71, 0, 8191, 1, NoPayload)
BadPacket   == TsPacket(0, 0, 0, 0, NoPayload)           \* no sync byte

TsPackets == {PatPacket, PmtPacket, VideoPacket, AudioPacket, MorePacket,
              NullPacket, BadPacket}

TsBuffers == UNION {[1..n -> TsPackets] : n \in 1..MaxTsLen}

\* ---- the client that is handed the byte buffer chunk by chunk
\* what a Read answered, kept unless it is ErrTryAgain
Emit(out, d) ==
    IF d.err = ErrTryAgain THEN out ELSE Append(out, [pkt |-> d.pkt, err |-> d.err])

\* HlsClient.Read: with an empty c.buffer the next chunk, any number of whole
\* packets of what is left, becomes c.buffer; then demux
TsRead ==
    /\ pc = "ts"
    /\ tsbuf # <<>> \/ tsRest # <<>>
    /\ \E k \in 1..MaxTsLen :
         /\ IF tsbuf = <<>> THEN k <= Len(tsRest) ELSE k = 1
         /\ LET buf == IF tsbuf = <<>> THEN SubSeq(tsRest, 1, k) ELSE tsbuf
                d   == DemuxTs(buf, pat, pmt)
            IN /\ tsRest' = IF tsbuf = <<>>
                            THEN SubSeq(tsRest, k + 1, Len(tsRest)) ELSE tsRest
               /\ tsbuf' = d.buffer
               /\ pat' = d.pat
               /\ pmt' = d.pmt
               /\ rd' = [pkt |-> d.pkt, err |-> d.err]
               /\ tsOut' = Emit(tsOut, d)
    /\ UNCHANGED <<pes, ref, cfg, hlsVars, decoder, pc, retErr, srcPos, timerAt,
                   timerC, plyVars, info, now, obsVars>>

\* the same Read of the client that was handed the byte buffer as one chunk
RefRead ==
    /\ pc = "ts"
    /\ ref.buffer # <<>>
    /\ LET d == DemuxTs(ref.buffer, ref.pat, ref.pmt)
       IN ref' = [buffer |-> d.buffer, pat |-> d.pat, pmt |-> d.pmt,
                  out |-> Emit(ref.out, d)]
    /\ UNCHANGED <<pes, pat, pmt, tsbuf, tsRest, tsOut, cfg, hlsVars, drvVars,
                   plyVars, info, now, obsVars>>

NoRef == [buffer |-> <<>>, pat |-> <<>>, pmt |-> <<>>, out |-> <<>>]

(***************************************************************************)
(* The media stream behind client.Read in a whole probe.                   *)
(***************************************************************************)
\* packet i of the stream: "mixed" is one audio packet followed by video
StreamPkt(i) ==
    [pktType  |-> IF cfg.streamKind = "audio"
                     \/ (cfg.streamKind = "mixed" /\ i = 0)
                  THEN PktAudio ELSE PktVideo,
     pts      |-> i * cfg.ptsStep,
     keyframe |-> TRUE]

TryAgainResult == [pkt |-> ZeroPkt, err |-> ErrTryAgain]

\* what a streaming client can answer to the next Read: the next packet of
\* the stream, ErrTryAgain (a tag or TS packet that carries no audio or video
\* sample: anywhere in a noisy stream, else before the first packet and once
\* the stream has stalled) or a fatal error
StreamResults(fatal) ==
       (IF cfg.noisy \/ srcPos = 0 \/ srcPos >= cfg.streamLen
        THEN {TryAgainResult} ELSE {})
  \cup (IF srcPos < cfg.streamLen
        THEN {[pkt |-> StreamPkt(srcPos), err |-> Nil]} ELSE {})
  \cup {[pkt |-> ZeroPkt, err |-> e] : e \in fatal}

\* FlvClient.Read: c.decoder.Decode on a nil decoder is a nil dereference;
\* a decode error or a tag that is neither video nor raw AAC is ErrTryAgain
FlvReadResults ==
    IF ~decoder THEN {[pkt |-> ZeroPkt, err |-> "panic"]}
    ELSE StreamResults({})

\* HlsClient.Read as the driver sees it: only the poller fills c.playlist, so
\* without a poller every Read finds it empty
HlsReadResults ==
    IF pollerPc = "none" THEN {TryAgainResult}
    ELSE StreamResults({ErrTransport, ErrInvaildTsPacket, ErrInvaildPESHeader})

(***************************************************************************)
(* Player                                                                  *)
(***************************************************************************)
\* NewPlayer clamps the buffer time
BufferTimeMs ==
    IF cfg.PlayerBufferTimeMs > MaxBufferTimeMs THEN MaxBufferTimeMs
    ELSE cfg.PlayerBufferTimeMs

\* the frame-rate estimate over vqueue: count and total of the PTS steps that
\* lie in (0, 100) ms
RECURSIVE EstimateFps(_, _, _, _, _)
EstimateFps(q, i, lastPts, count, totalDuration) ==
    IF i > Len(q)
    THEN [count |-> count, totalDuration |-> totalDuration]
    ELSE IF q[i].pts > lastPts /\ q[i].pts - lastPts < MaxDeltaMs
         THEN EstimateFps(q, i + 1, q[i].pts, count + 1,
                          totalDuration + (q[i].pts - lastPts))
         ELSE EstimateFps(q, i + 1, q[i].pts, count, totalDuration)

\* fps as the pair count / totalDuration (* 1000); 30 when no step counted
Fps(q) ==
    LET e == EstimateFps(q, 2, q[1].pts, 0, 0)
    IN IF e.totalDuration # 0 THEN e
       ELSE [count |-> DefaultFps, totalDuration |-> 1000]

\* time.Duration(1000000.0/fps) * time.Microsecond, in microseconds
FrameDuration(fps) == (1000 * fps.totalDuration) \div fps.count

\* pktNum of the buffering -> playing transition
PktNum(fd) == (BufferTimeMs * 1000) \div fd

\* no truncation at the start of playback
TruncateKeepAll(q, fd) == q
\* p.vqueue = p.vqueue[:pktNum], only when bufferTimeMs # 0
Truncate(q, fd) ==
    IF BufferTimeMs # 0 THEN SubSeq(q, 1, PktNum(fd)) ELSE q

\* a send that gives up when the player has not caught up
SendDropWhenBusy(c, pkt) == IF Len(c) > 0 THEN c ELSE Append(c, pkt)
\* player.ch <- *pkt
Send(c, pkt) == Append(c, pkt)

\* the lag measured from the connect instead of from the start of the lag
SinceConnect == now - info.StartTime
\* time.Since(lagTime).Milliseconds()
SinceLag == now - lagTime

playerAlive == playerPc = "running" /\ pc # "crashed"

\* a player that takes every packet for a video packet
IsVideoAlways(pkt) == TRUE
\* if pkt.pktType == PktVideo
IsVideo(pkt) == pkt.pktType = PktVideo

\* case pkt := <-p.ch (a closed, drained channel yields the zero AVPacket)
PlayerRecv ==
    /\ playerAlive
    /\ Len(ch) > 0 \/ (chClosed /\ zeroRecv < MaxZero)
    /\ LET pkt == IF Len(ch) > 0 THEN Head(ch) ELSE ZeroPkt
           sinceStart == now - info.StartTime
       IN /\ ch' = IF Len(ch) > 0 THEN Tail(ch) ELSE ch
          /\ queued' = IF Len(ch) > 0 THEN queued + 1 ELSE queued
          /\ zeroRecv' = IF Len(ch) > 0 THEN zeroRecv ELSE zeroRecv + 1
          /\ IF IsVideo(pkt)
             THEN LET q     == Append(vqueue, pkt)
                      info1 == IF ~hasVideo
                               THEN [info EXCEPT !.FirstVideoPktTimeMs = sinceStart]
                               ELSE info
                  IN /\ hasVideo' = TRUE
                     /\ IF ~startPlay /\ Len(q) >= MinStartFrames
                        THEN LET fps == Fps(q)
                                 fd  == FrameDuration(fps)
                             IN /\ info' = [info1 EXCEPT !.VideoFps = fps]
                                /\ frameDuration' = fd
                                /\ IF Len(q) * fd >= BufferTimeMs * 1000
                                   THEN /\ startPlay' = TRUE
                                        /\ startTime' = now
                                        /\ vqueue' = Truncate(q, fd)
                                   ELSE /\ vqueue' = q
                                        /\ UNCHANGED <<startPlay, startTime>>
                        ELSE /\ info' = info1
                             /\ vqueue' = q
                             /\ UNCHANGED <<frameDuration, startPlay, startTime>>
                     /\ UNCHANGED <<hasAudio, aqueue>>
             ELSE /\ hasAudio' = TRUE
                  /\ info' = IF ~hasAudio
                             THEN [info EXCEPT !.FirstAudioPktTimeMs = sinceStart]
                             ELSE info
                  /\ aqueue' = Append(aqueue, pkt)
                  /\ UNCHANGED <<hasVideo, vqueue, frameDuration, startPlay,
                                 startTime>>
    /\ UNCHANGED <<tsVars, cfg, hlsVars, drvVars, playerPc, chClosed, ctxDone, rebuffer,
                   lagTime, now, reqs, appended, hist, playTicked, lastPoll,
                   access, lagWrites>>

\* case <-ticker.C
PlayerTick ==
    /\ playerAlive
    /\ info.TotalLagCount <= MaxLagCount
    /\ IF ~startPlay
       THEN UNCHANGED <<vqueue, aqueue, rebuffer, lagTime, info, playTicked>>
       ELSE LET queue    == IF hasVideo THEN vqueue ELSE aqueue
                \* audioFrameDuration is never set
                duration == IF hasVideo THEN frameDuration ELSE 0
                refill   == rebuffer
                            /\ Len(queue) * duration >= BufferTimeMs * 1000
                info1    == IF refill
                            THEN [info EXCEPT !.TotalLagTimeMs = @ + SinceLag]
                            ELSE info
                rebuf1   == rebuffer /\ ~refill
                rest     == IF ~rebuf1 /\ Len(queue) # 0 THEN Tail(queue)
                                                          ELSE queue
                lag      == ~rebuf1 /\ Len(queue) = 0
            IN /\ playTicked' = TRUE
               /\ vqueue' = IF hasVideo THEN rest ELSE vqueue
               /\ aqueue' = IF hasVideo THEN <<>> ELSE rest
               /\ rebuffer' = (rebuf1 \/ lag)
               /\ lagTime' = IF lag THEN now ELSE lagTime
               /\ info' = IF lag
                          THEN [info1 EXCEPT !.TotalLagCount = @ + 1]
                          ELSE info1
    /\ UNCHANGED <<tsVars, cfg, hlsVars, drvVars, playerPc, ch, chClosed, ctxDone,
                   startPlay, hasVideo, hasAudio, frameDuration, startTime, now,
                   reqs, appended, hist, queued, zeroRecv, lastPoll, access,
                   lagWrites>>

\* a shutdown branch that computes LagRate whether playback started or not
ShutdownWritesAlways == TRUE
\* if !startPlay { return }: the rest of the branch runs only after playback
\* started
ShutdownWrites == startPlay

\* case <-p.ctx.Done()
PlayerDone ==
    /\ playerAlive
    /\ ctxDone
    /\ playerPc' = "exited"
    /\ lagWrites' = IF ShutdownWrites THEN lagWrites + 1 ELSE lagWrites
    /\ info' = IF ~ShutdownWrites THEN info
               ELSE LET lagMs == IF rebuffer
                                 THEN info.TotalLagTimeMs + SinceLag
                                 ELSE info.TotalLagTimeMs
                    IN [info EXCEPT !.TotalLagTimeMs = lagMs,
                                    !.LagRate = [lag |-> lagMs,
                                                 total |-> now - startTime]]
    /\ UNCHANGED <<tsVars, cfg, hlsVars, drvVars, ch, chClosed, ctxDone, vqueue, aqueue,
                   startPlay, hasVideo, hasAudio, rebuffer, frameDuration,
                   lagTime, startTime, now, reqs, appended, hist, queued,
                   zeroRecv, playTicked, lastPoll, access>>

(***************************************************************************)
(* Prober.do                                                               *)
(***************************************************************************)
\* client.Connect, then NewPlayer, go player.Do() and time.NewTimer
DriverConnect ==
    /\ pc = "start"
    /\ LET c == ClientConnect IN
       /\ info' = c.info
       /\ reqs' = IF c.sent
                  THEN reqs \cup {Sent("connect",
                                       NewRequest(cfg.Url, NilHeader).req)}
                  ELSE reqs
       /\ decoder' = c.decoder
       /\ pollerPc' = IF c.poller THEN "running" ELSE "none"
       /\ interval' = IF c.poller THEN 1 ELSE interval
       /\ IF c.err # Nil
          THEN /\ retErr' = c.err
               /\ pc' = "returned"
               /\ UNCHANGED <<playerPc, timerAt>>
          ELSE /\ playerPc' = "running"
               /\ timerAt' = now + cfg.ProbeTimeSec * 1000
               /\ pc' = "loop"
               /\ UNCHANGED retErr
    /\ UNCHANGED <<tsVars, cfg, playlist, lastSeqId, secondM3u8Url, buffer, m3u8Done,
                   hlsPc, rd, srcPos, timerC, ch, chClosed, ctxDone, vqueue,
                   aqueue, startPlay, hasVideo, hasAudio, rebuffer,
                   frameDuration, lagTime, startTime, now, appended, hist,
                   queued, zeroRecv, playTicked, lastPoll, access, lagWrites>>

\* a loop that returns on every error
ReadErrPassAll(r) ==
    IF r.err = Nil THEN [pc |-> "send", retErr |-> retErr]
    ELSE [pc |-> "return", retErr |-> r.err]
\* what the loop does with the result of client.Read
ReadErr(r) ==
    IF r.err = Nil THEN [pc |-> "send", retErr |-> retErr]
    ELSE IF r.err = ErrTryAgain THEN [pc |-> "loop", retErr |-> retErr]
    ELSE [pc |-> "return", retErr |-> r.err]

\* one turn of the loop up to the send: the select on timer.C, client.Read
\* and the error check after it
DriverLoop ==
    /\ pc = "loop"
    /\ IF timerC
       THEN /\ pc' = "return"
            /\ retErr' = Nil
            /\ UNCHANGED <<rd, srcPos>>
       ELSE \E r \in IF cfg.Kind = "flv" THEN FlvReadResults
                                          ELSE HlsReadResults :
              /\ rd' = r
              /\ srcPos' = IF r.err = Nil THEN srcPos + 1 ELSE srcPos
              /\ pc' = ReadErr(r).pc
              /\ retErr' = ReadErr(r).retErr
    /\ UNCHANGED <<tsVars, cfg, hlsVars, decoder, timerAt, timerC, plyVars, info, now,
                   obsVars>>

\* player.ch <- *pkt blocks while the channel is full
DriverSend ==
    /\ pc = "send"
    /\ Len(ch) < ChanCap
    /\ ch' = Send(ch, rd.pkt)
    /\ pc' = "loop"
    /\ UNCHANGED <<tsVars, cfg, hlsVars, decoder, rd, retErr, srcPos, timerAt, timerC,
                   playerPc, chClosed, ctxDone, vqueue, aqueue, startPlay,
                   hasVideo, hasAudio, rebuffer, frameDuration, lagTime,
                   startTime, info, now, obsVars>>

\* do returns (or unwinds in a panic): the deferred timer.Stop(),
\* player.Close() - p.cancel() and close(p.ch), waiting for nothing - and
\* client.Close() run, and the caller has the StreamInfo
DriverReturn ==
    /\ pc = "return"
    /\ ctxDone' = TRUE
    /\ chClosed' = TRUE
    /\ m3u8Done' = (m3u8Done \/ (cfg.Kind = "hls" /\ CloseCancels))
    /\ pc' = IF retErr = "panic" THEN "crashed" ELSE "returned"
    /\ UNCHANGED <<tsVars, cfg, playlist, lastSeqId, secondM3u8Url, buffer, interval,
                   pollerPc, hlsPc, decoder, rd, retErr, srcPos, timerAt, timerC,
                   playerPc, ch, vqueue, aqueue, startPlay, hasVideo, hasAudio,
                   rebuffer, frameDuration, lagTime, startTime, info, now,
                   obsVars>>

(***************************************************************************)
(* Time                                                                    *)
(***************************************************************************)
Elapse ==
    /\ now + TimeStep <= MaxNow
    /\ pc # "crashed"
    /\ now' = now + TimeStep
    /\ UNCHANGED <<tsVars, cfg, hlsVars, drvVars, plyVars, info, obsVars>>

\* the runtime puts a value in timer.C once the probe time is over
TimerFire ==
    /\ pc \in {"loop", "send"}
    /\ ~timerC
    /\ now >= timerAt
    /\ timerC' = TRUE
    /\ UNCHANGED <<tsVars, cfg, hlsVars, decoder, pc, rd, retErr, srcPos, timerAt,
                   plyVars, info, now, obsVars>>

(***************************************************************************)
(* The HLS client on its own: poller and read task.                        *)
(***************************************************************************)
Headers == {{}, {<<"User-Agent", "probe">>}}

HlsUrl == <<T("http://"), T("host"), T("/"), T("live.m3u8")>>
FlvUrl == <<T("http://"), T("host"), T("/"), T("live.flv")>>

HlsConfigs ==
    {[Kind |-> "hls", Url |-> HlsUrl, scheme |-> "http", host |-> "host",
      Header |-> h, PlayerBufferTimeMs |-> 0, ProbeTimeSec |-> 1,
      reachable |-> r, status |-> st, flvOk |-> TRUE,
      ptsStep |-> 0, streamKind |-> "video", streamLen |-> 0,
      noisy |-> TRUE, server |-> sv] :
        h \in Headers \ {{}}, r \in BOOLEAN, st \in {200, 404},
        sv \in {"live", "any"}}

InitCommon ==
    /\ playlist = <<>> /\ lastSeqId = -1 /\ secondM3u8Url = EmptyStr
    /\ buffer = 0 /\ interval = 0 /\ pollerPc = "none"
    /\ m3u8Done = FALSE
    /\ decoder = FALSE
    /\ rd = [pkt |-> ZeroPkt, err |-> Nil] /\ retErr = "none" /\ srcPos = 0
    /\ timerAt = -1 /\ timerC = FALSE
    /\ playerPc = "none" /\ ch = <<>> /\ chClosed = FALSE /\ ctxDone = FALSE
    /\ vqueue = <<>> /\ aqueue = <<>>
    /\ startPlay = FALSE /\ hasVideo = FALSE /\ hasAudio = FALSE
    /\ rebuffer = FALSE
    /\ frameDuration = 0 /\ lagTime = 0 /\ startTime = 0
    /\ info = ZeroInfo
    /\ now = 0
    /\ reqs = {} /\ appended = <<>> /\ hist = HistStart
    /\ queued = 0 /\ zeroRecv = 0 /\ playTicked = FALSE
    /\ lastPoll = PollRecord(NoResponse, Nil, [playlist |-> <<>>])
    /\ access = {} /\ lagWrites = 0

\* the demuxer on its own is not in use
InitTsIdle ==
    /\ pes = NoPes /\ pat = <<>> /\ pmt = <<>>
    /\ tsbuf = <<>> /\ tsRest = <<>> /\ tsOut = <<>> /\ ref = NoRef

InitHls ==
    /\ cfg \in HlsConfigs
    /\ hlsPc = "new"
    /\ pc = "idle"
    /\ InitCommon
    /\ InitTsIdle

NextHls == HlsConnect \/ Poll \/ PollerExit \/ HlsRead \/ HlsClose

SpecHls == InitHls /\ [][NextHls]_vars

(***************************************************************************)
(* A whole probe: driver, player and clock.                                *)
(***************************************************************************)
BaseConfig ==
    [Kind |-> "flv", Url |-> FlvUrl, scheme |-> "http", host |-> "host",
     Header |-> {}, PlayerBufferTimeMs |-> 500, ProbeTimeSec |-> 1,
     reachable |-> TRUE, status |-> 200, flvOk |-> TRUE,
     ptsStep |-> 33, streamKind |-> "video", streamLen |-> MaxPkts,
     noisy |-> FALSE, server |-> "live"]

\* probes that differ in how the connection goes, on a short noisy stream
ConnectConfigs ==
    {[BaseConfig EXCEPT !.Kind = k,
                        !.Url = IF k = "hls" THEN HlsUrl ELSE FlvUrl,
                        !.Header = h, !.reachable = r, !.status = st,
                        !.flvOk = ok, !.ProbeTimeSec = t,
                        !.PlayerBufferTimeMs = 40000,
                        !.streamKind = "mixed",
                        !.streamLen = ShortStream, !.noisy = TRUE] :
        k \in {"flv", "hls"}, h \in Headers, r \in BOOLEAN,
        st \in {200, 404}, ok \in BOOLEAN, t \in {0, 1}}

\* probes that differ in what is played and how
PlayConfigs ==
    {[BaseConfig EXCEPT !.PlayerBufferTimeMs = b] : b \in {0, 500, 2000}}
    \cup {[BaseConfig EXCEPT !.ptsStep = 100, !.streamKind = "mixed"],
          [BaseConfig EXCEPT !.streamKind = "audio"]}

Init ==
    /\ cfg \in ConnectConfigs \cup PlayConfigs
    /\ hlsPc = "idle"
    /\ pc = "start"
    /\ InitCommon
    /\ InitTsIdle

Next ==
    \/ DriverConnect \/ DriverLoop \/ DriverSend \/ DriverReturn
    \/ PlayerRecv \/ PlayerTick \/ PlayerDone
    \/ Elapse \/ TimerFire

Spec == Init /\ [][Next]_vars

\* the same probe of a stream that plays and of one that never does, with
\* the player's select taking <-p.ctx.Done() once it is ready: a select
\* chooses among its ready cases at random
LiveConfigs == {BaseConfig, [BaseConfig EXCEPT !.streamKind = "audio"]}

InitLive ==
    /\ cfg \in LiveConfigs
    /\ hlsPc = "idle"
    /\ pc = "start"
    /\ InitCommon
    /\ InitTsIdle

SpecLive == InitLive /\ [][Next]_vars /\ WF_vars(PlayerDone)

(***************************************************************************)
(* The driver and the playlist poller of an HLS probe whose segments yield *)
(* no packet.  The poller's select takes <-c.m3u8Ctx.Done() once it is     *)
(* ready, and every HTTP exchange of the poller comes to an end.           *)
(***************************************************************************)
PollerConfigs ==
    {[BaseConfig EXCEPT !.Kind = "hls", !.Url = HlsUrl, !.status = st,
                        !.streamLen = 0, !.noisy = TRUE, !.server = sv] :
        st \in {200, 404}, sv \in {"live", "any"}}

InitPoller ==
    /\ cfg \in PollerConfigs
    /\ hlsPc = "idle"
    /\ pc = "start"
    /\ InitCommon
    /\ InitTsIdle

NextPoller ==
    \/ DriverConnect \/ DriverLoop \/ DriverReturn
    \/ Poll \/ PollerExit
    \/ Elapse \/ TimerFire

SpecPoller == InitPoller /\ [][NextPoller]_vars /\ WF_vars(PollerExit)

(***************************************************************************)
(* decodePES on its own.                                                   *)
(***************************************************************************)
InitPes ==
    /\ cfg = BaseConfig
    /\ hlsPc = "idle"
    /\ pc = "pes"
    /\ InitCommon
    /\ pes \in PesInputs
    /\ pat = <<>> /\ pmt = <<>>
    /\ tsbuf = <<>> /\ tsRest = <<>> /\ tsOut = <<>> /\ ref = NoRef

NextPes == DecodePesStep

SpecPes == InitPes /\ [][NextPes]_vars

(***************************************************************************)
(* The demuxer on its own: one byte buffer, handed to one client chunk by  *)
(* chunk and to another as a whole.                                        *)
(***************************************************************************)
InitTs ==
    /\ cfg = BaseConfig
    /\ hlsPc = "idle"
    /\ pc = "ts"
    /\ InitCommon
    /\ pes = NoPes /\ pat = <<>> /\ pmt = <<>>
    /\ tsbuf = <<>> /\ tsOut = <<>>
    /\ tsRest \in TsBuffers
    /\ ref = [NoRef EXCEPT !.buffer = tsRest]

NextTs == TsRead \/ RefRead

SpecTs == InitTs /\ [][NextTs]_vars

(***************************************************************************)
(* Properties                                                              *)
(***************************************************************************)

\* C1: when the media playlists polled so far were overlapping, extending
\* windows of consecutive SeqIds with relative URIs, the segments appended to
\* c.playlist are exactly the SeqIds from the first window's start to the
\* last window's end, in order, each once.
C1_WindowSegmentsEnqueuedOnce ==
    (hist.wf /\ hist.first >= 0) =>
        appended = [i \in 1..(hist.hi - hist.first + 1) |-> hist.first + i - 1]

\* C2: lastSeqId never decreases, whatever is polled and read.
C2_LastSeqIdMonotone == [][lastSeqId' >= lastSeqId]_vars

\* lastSeqId reached the largest SeqId while a segment with an absolute URI
\* and a smaller SeqId sits in the queue
C2_Witness ==
    /\ lastSeqId = SeqHi
    /\ \E i \in 1..Len(playlist) :
          playlist[i].seqId = SeqLo /\ playlist[i].url[2] = T("cdn")

\* C3: TotalLagCount goes up by one exactly in the steps that take the player
\* from playing to rebuffering (rebuffer false before, true after, the active
\* queue empty), and in no other step.
C3_LagCountOnlyAtTransition ==
    [][IF info'.TotalLagCount # info.TotalLagCount
       THEN /\ info'.TotalLagCount = info.TotalLagCount + 1
            /\ startPlay /\ ~rebuffer /\ rebuffer' /\ Len(vqueue) = 0
       ELSE ~(startPlay /\ ~rebuffer /\ rebuffer')]_vars

\* C4: when do has returned after starting the player, Player.Do has exited.
C4_PlayerExitedBeforeReturn ==
    (pc = "returned" /\ playerPc # "none") => playerPc = "exited"

\* C5: a probe whose first GET is answered with a status other than 200 ends
\* connected, with that status, ErrCode 1002 and no first-packet time, and
\* stays so after the driver returned.
C5_Non200Result ==
    (pc = "returned" /\ cfg.reachable /\ cfg.status # 200) =>
        /\ info.IsConnected
        /\ info.HttpCode = cfg.status
        /\ info.ErrCode = ErrInvalidHttpCode
        /\ info.FirstVideoPktTimeMs = 0
        /\ info.FirstAudioPktTimeMs = 0

\* C6: every request that went out carries every entry of Prober.Header.
C6_HeaderOnEveryRequest == \A r \in reqs : cfg.Header \subseteq r.header

\* C7: do never returns ErrTryAgain.
C7_TryAgainNeverReturned == retErr # ErrTryAgain

\* the last Read answered ErrTryAgain and do then returned nil on the timer
C7_Witness == pc = "returned" /\ rd.err = ErrTryAgain /\ retErr = Nil

\* C8: once the probe is over, every packet Read returned was appended to a
\* player queue, or do returned a terminal error.
C8_NoPacketDropped ==
    (pc = "returned" /\ playerPc = "exited") =>
        (queued = srcPos \/ IsFatal(retErr))

\* C8 as amended: every packet Read returned is in the driver's hand, in the
\* channel in emission order, or was appended to a player queue; what does
\* not reach a queue is what is still in the channel when the player exits.
C8_PacketsAccountedFor ==
    /\ srcPos = queued + Len(ch) + (IF pc = "send" THEN 1 ELSE 0)
    /\ \A i \in 1..Len(ch) : ch[i] = StreamPkt(queued + i - 1)
    /\ pc = "send" => rd.pkt = StreamPkt(srcPos - 1)

\* do returned nil on the timer and the player exited with packets left in
\* the channel
C8_Witness ==
    /\ pc = "returned" /\ retErr = Nil /\ playerPc = "exited"
    /\ Len(ch) > 0 /\ queued > 0

\* C9: at shutdown after playback started, LagRate is within [0, 1] when the
\* total play time is positive: the lag time does not exceed the play time.
C9_LagRateInUnitInterval ==
    (playerPc = "exited" /\ startPlay /\ info.LagRate.total > 0) =>
        /\ 0 <= info.LagRate.lag
        /\ info.LagRate.lag <= info.LagRate.total
        /\ info.TotalLagTimeMs = info.LagRate.lag

\* the player shut down while rebuffering, after a lag shorter than the play
\* time
C9_Witness ==
    /\ playerPc = "exited" /\ startPlay /\ rebuffer
    /\ info.LagRate.lag > 0 /\ info.LagRate.lag < info.LagRate.total

\* C10: with bufferTimeMs > 0, as long as no ticker event was handled in the
\* playing phase, vqueue holds bufferTimeMs / frameDuration packets.
C10_FirstTickLen ==
    (startPlay /\ ~playTicked /\ playerPc = "running" /\ BufferTimeMs > 0) =>
        Len(vqueue) = PktNum(frameDuration)

\* C10 as amended: the step into the playing phase leaves exactly
\* bufferTimeMs / frameDuration packets in vqueue, and until the first ticker
\* event of the playing phase vqueue holds at least that many.
C10_LenAtTransition ==
    [][(startPlay' /\ ~playTicked' /\ BufferTimeMs > 0) =>
          /\ Len(vqueue') >= PktNum(frameDuration')
          /\ ~startPlay => Len(vqueue') = PktNum(frameDuration')]_vars

\* playing, no ticker event handled yet, and a video packet has arrived since
\* the truncation
C10_Witness ==
    /\ startPlay /\ ~playTicked /\ playerPc = "running" /\ BufferTimeMs > 0
    /\ Len(vqueue) > PktNum(frameDuration)

\* C11: for a PES header that is well formed, with PTS_DTS_flags 2 or 3 and
\* the matching high nibble, decodePES answers a packet whose pts is the
\* 33-bit PTS divided by 90.
C11_PtsIsPtsOver90 ==
    (pc = "pes done" /\ pes.flags \in {2, 3}
        /\ pes.data = WellFormedPes(pes.flags, pes.P)) =>
        /\ rd.err = Nil
        /\ rd.pkt.pts = Div90(PtsValue(pes.P))

\* C12: the packets and fatal errors answered for a byte buffer handed over
\* chunk by chunk are those answered when it is handed over as a whole: at
\* any time one sequence is the beginning of the other, and they are equal
\* once both clients have used up the buffer.
C12_ChunkingIndependent ==
    LET n == IF Len(tsOut) < Len(ref.out) THEN Len(tsOut) ELSE Len(ref.out)
    IN /\ SubSeq(tsOut, 1, n) = SubSeq(ref.out, 1, n)
       /\ (tsbuf = <<>> /\ tsRest = <<>> /\ ref.buffer = <<>>) =>
              tsOut = ref.out

\* the chunked client has decoded PAT and PMT and waits at a chunk boundary
\* for the chunk that carries the packet the other client already answered
C12_Witness ==
    /\ pc = "ts"
    /\ pat # <<>> /\ pmt # <<>> /\ tsbuf = <<>> /\ tsRest # <<>> /\ tsOut = <<>>
    /\ Len(ref.out) > 0 /\ ref.out[1].err = Nil

\* C13: after a ticker event of the poller that ended in an error (request
\* construction, HTTP failure, parse error, closed media playlist) the
\* ticker's period is 1 s.
C13_ErrorRetryAfterOneSecond == (lastPoll.err # Nil) => interval = 1000

Queued(segs) == [i \in 1..Len(segs) |->
                    [url |-> ResolveUri(segs[i].URI), seqId |-> segs[i].SeqId]]

\* the segments before the first one that is not newer than the watermark
RECURSIVE Newer(_, _)
Newer(segs, last) ==
    IF segs = <<>> \/ Int64(Head(segs).SeqId) <= last THEN <<>>
    ELSE <<Head(segs)>> \o Newer(Tail(segs), last)

AbsolutePoll == lastPoll.kind = "absolute" /\ lastPoll.err = Nil

\* C14: a poll of a live media playlist whose segments all have absolute URIs
\* appends all of them to c.playlist and leaves lastSeqId as it was.
C14_AbsoluteAlwaysAppended ==
    AbsolutePoll =>
        /\ lastSeqId = lastPoll.last
        /\ lastPoll.added = Queued(lastPoll.segs)

\* C14 as amended: such a poll leaves lastSeqId as it was and appends, with
\* their URIs unchanged, the segments that come before the first one whose
\* SeqId is not above lastSeqId.
C14_AbsoluteAppendedWhileNewer ==
    AbsolutePoll =>
        /\ lastSeqId = lastPoll.last
        /\ lastPoll.added = Queued(Newer(lastPoll.segs, lastSeqId))
        /\ \A i \in 1..Len(lastPoll.added) :
              lastPoll.added[i].url = lastPoll.segs[i].URI

\* two polls of the same absolute segment have put it in the queue twice
C14_Witness ==
    /\ AbsolutePoll
    /\ lastPoll.added # <<>>
    /\ \E i, j \in 1..Len(playlist) :
          i < j /\ playlist[i] = playlist[j] /\ playlist[j] = lastPoll.added[1]

\* C17: whenever the last Read answered ErrTryAgain, c.buffer is empty.
C17_TryAgainOnlyOnExhaustion == (rd.err = ErrTryAgain) => buffer = 0

\* C17 as amended: Read takes a segment off c.playlist only when c.buffer is
\* empty, and a Read with packets left in c.buffer takes at least one of
\* them, fetches nothing and leaves c.playlist alone (whatever it answers,
\* ErrTryAgain included).
C17_BufferDiscipline ==
    [][/\ Len(playlist') < Len(playlist) => buffer = 0
       /\ (buffer # 0 /\ buffer' # buffer) =>
              /\ buffer' < buffer
              /\ playlist' = playlist
              /\ reqs' = reqs]_vars

\* Read answered ErrTryAgain with TS packets left in c.buffer while another
\* segment waits in c.playlist
C17_Witness ==
    rd.err = ErrTryAgain /\ buffer > 0 /\ Len(playlist) > 0

C15_LagRateOnceAtShutdown ==
    /\ [](lagWrites <= 1)
    /\ [](lagWrites = 1 => (playerPc = "exited" /\ startPlay))
    /\ []((~startPlay \/ playerPc # "exited") =>
              (lagWrites = 0 /\ info.LagRate = ZeroInfo.LagRate))
    /\ [][info'.LagRate # info.LagRate => lagWrites' = lagWrites + 1]_vars
    /\ ((startPlay /\ ctxDone) ~> (playerPc = "exited" /\ lagWrites = 1))

\* the player was cancelled while rebuffering and has assigned a LagRate
\* above 0
C15_Witness ==
    /\ playerPc = "exited" /\ startPlay /\ ctxDone /\ lagWrites = 1
    /\ info.LagRate.lag > 0 /\ info.LagRate.total > 0

C19_PlaybackStartsOnVideoOnly ==
    /\ [][(~startPlay /\ startPlay') =>
             /\ Len(ch) > 0 /\ Head(ch).pktType = PktVideo
             /\ Len(vqueue) + 1 >= MinStartFrames
             /\ (Len(vqueue) + 1) * frameDuration' >= BufferTimeMs * 1000]_vars
    /\ [](cfg.streamKind = "audio" =>
             /\ ~startPlay /\ ~playTicked
             /\ Len(aqueue) = queued + zeroRecv
             /\ vqueue = <<>>
             /\ info.TotalLagCount = 0
             /\ info.TotalLagTimeMs = 0
             /\ info.LagRate = ZeroInfo.LagRate
             /\ info.VideoFps = ZeroInfo.VideoFps)

\* the probe of an audio-only stream is over after the player received 60
\* packets or more
C19_Witness ==
    /\ cfg.streamKind = "audio"
    /\ pc = "returned" /\ playerPc = "exited"
    /\ queued >= MinStartFrames /\ hasAudio

\* C20: no Read is made on an FLV client whose decoder Connect did not
\* create.
C20_NoReadOnNilDecoder ==
    ~(cfg.Kind = "flv" /\ ~decoder /\ rd.err = "panic")

\* C21: Player.Do handles only packets the driver sent: none comes from the
\* closed channel, and on a stream without audio packets hasAudio stays
\* false, aqueue stays empty and FirstAudioPktTimeMs stays 0.
C21_OnlySentPackets ==
    /\ zeroRecv = 0
    /\ (cfg.streamKind = "video" =>
            /\ ~hasAudio
            /\ aqueue = <<>>
            /\ info.FirstAudioPktTimeMs = 0)

====
